---- MODULE Spec2Model ----
(***************************************************************************)
(* Model of the pluggable resolver / balancer layer of grpc-go:            *)
(*   - balancer.ConnectivityStateEvaluator (connectivity aggregation),     *)
(*   - the balancer and resolver builder registries,                       *)
(*   - serviceconfig.BalancerConfig.UnmarshalJSON (policy selection).      *)
(* Three specifications share the variables: SpecCSE drives the evaluator  *)
(* with valid SubConn histories, SpecReg drives the two registries, and    *)
(* SpecBC drives the selector over a registry filled by Register.          *)
(***************************************************************************)
EXTENDS Integers, Sequences, FiniteSets, TLC

VARIABLES
    subConns,       \* SubConn id -> connectivity state ("None" = not created)
    cse,            \* the ConnectivityStateEvaluator: numReady, numConnecting
    lastRT,         \* the last RecordTransition call: oldState, newState, ret
    balM,           \* package balancer: m, name -> Builder
    resM,           \* package resolver: m, scheme -> Builder
    defaultScheme,  \* package resolver: defaultScheme
    regLast,        \* the last registry operation and what it returned
    balLatest,      \* history: per name, the latest builder registered under its key
    resLatest,      \* history: per scheme, the latest builder registered under it
    onlyRegisters,  \* history: no unregisterForTesting call was made so far
    bc,             \* the receiving BalancerConfig: Name, Config
    lastUnmarshal   \* the last UnmarshalJSON call: input, prior receiver, err

vars == <<subConns, cse, lastRT, balM, resM, defaultScheme, regLast,
          balLatest, resLatest, onlyRegisters, bc, lastUnmarshal>>

cseVars == <<subConns, cse, lastRT>>
regVars == <<balM, resM, defaultScheme, regLast, balLatest, resLatest, onlyRegisters>>
bcVars == <<bc, lastUnmarshal>>

-----------------------------------------------------------------------------
(* Bounds of the model.                                                    *)

MaxSubConns == 3
MaxListLen == 2

-----------------------------------------------------------------------------
(* uint64 arithmetic. A uint64 is four 16-bit limbs, least significant     *)
(* first, so that sums wrap modulo 2^64 exactly as the Go counters do.     *)

LimbBase == 65536
NumLimbs == 4

U64(n) == [i \in 1..NumLimbs |-> IF i = 1 THEN n ELSE 0]

Carry(a, b, i) ==
    LET c[j \in 0..NumLimbs] ==
            IF j = 0 THEN 0 ELSE (a[j] + b[j] + c[j - 1]) \div LimbBase
    IN c[i]

Add64(a, b) == [i \in 1..NumLimbs |-> (a[i] + b[i] + Carry(a, b, i - 1)) % LimbBase]

Neg64(a) == Add64([i \in 1..NumLimbs |-> LimbBase - 1 - a[i]], U64(1))

Sub64(a, b) == Add64(a, Neg64(b))

IsZero64(a) == \A i \in 1..NumLimbs : a[i] = 0

-----------------------------------------------------------------------------
(* ConnectivityStateEvaluator                                              *)

Idle == "Idle"
Connecting == "Connecting"
Ready == "Ready"
TransientFailure == "TransientFailure"
Shutdown == "Shutdown"
NoSubConn == "None"

ConnectivityStates == {Idle, Connecting, Ready, TransientFailure, Shutdown}

SubConnIds == 1..MaxSubConns

\* updateVal computed in 32 bits and widened
UpdateVal32(idx) ==
    [i \in 1..NumLimbs |->
        IF i <= 2 THEN Sub64(Add64(U64(idx), U64(idx)), U64(1))[i] ELSE 0]

\* updateVal := 2*uint64(idx) - 1
UpdateVal(idx) == Sub64(Add64(U64(idx), U64(idx)), U64(1))

\* one iteration of the loop over {oldState, newState}
UpdateCounter(c, idx, state) ==
    CASE state = Ready -> [c EXCEPT !.numReady = Add64(@, UpdateVal(idx))]
      [] state = Connecting -> [c EXCEPT !.numConnecting = Add64(@, UpdateVal(idx))]
      [] OTHER -> c

UpdateCountersNoDecrement(c, oldState, newState) == UpdateCounter(c, 1, newState)

UpdateCounters(c, oldState, newState) ==
    UpdateCounter(UpdateCounter(c, 0, oldState), 1, newState)

EvaluateIdleWhenEmpty(c) ==
    IF ~IsZero64(c.numReady) THEN Ready
    ELSE IF ~IsZero64(c.numConnecting) THEN Connecting
    ELSE Idle

Evaluate(c) ==
    IF ~IsZero64(c.numReady) THEN Ready
    ELSE IF ~IsZero64(c.numConnecting) THEN Connecting
    ELSE TransientFailure

\* the SubConn state machine the callers of RecordTransition follow
ValidTransition(oldState, newState) ==
    \/ oldState = Idle /\ newState = Connecting
    \/ oldState = Connecting /\ newState \in {Ready, TransientFailure}
    \/ oldState = TransientFailure /\ newState = Connecting
    \/ oldState = Ready /\ newState \in {Idle, Connecting, TransientFailure}
    \/ oldState \in ConnectivityStates \ {Shutdown} /\ newState = Shutdown

NoCall == [oldState |-> NoSubConn, newState |-> NoSubConn, ret |-> NoSubConn]

RecordTransition(oldState, newState) ==
    /\ cse' = UpdateCounters(cse, oldState, newState)
    /\ lastRT' = [oldState |-> oldState, newState |-> newState,
                  ret |-> Evaluate(cse')]

\* ClientConn.NewSubConn: a SubConn starts in Idle; nothing is recorded
NewSubConn(i) ==
    /\ subConns[i] = NoSubConn
    /\ subConns' = [subConns EXCEPT ![i] = Idle]
    /\ UNCHANGED <<cse, lastRT>>
    /\ UNCHANGED <<regVars, bcVars>>

\* the initial report of a SubConn, recorded as (Idle -> Idle)
RecordInitial(i) ==
    /\ subConns[i] = Idle
    /\ RecordTransition(Idle, Idle)
    /\ UNCHANGED subConns
    /\ UNCHANGED <<regVars, bcVars>>

\* Balancer.UpdateSubConnState: the SubConn moved, the move is recorded once
UpdateSubConnState(i, newState) ==
    /\ subConns[i] # NoSubConn
    /\ ValidTransition(subConns[i], newState)
    /\ RecordTransition(subConns[i], newState)
    /\ subConns' = [subConns EXCEPT ![i] = newState]
    /\ UNCHANGED <<regVars, bcVars>>

-----------------------------------------------------------------------------
(* Strings. A Go string is a sequence of one-character strings, so that    *)
(* strings.ToLower is computed letter by letter.                           *)

Uppers == <<"A", "B", "C", "D", "E", "F", "G", "H", "I", "J", "K", "L", "M",
            "N", "O", "P", "Q", "R", "S", "T", "U", "V", "W", "X", "Y", "Z">>
Lowers == <<"a", "b", "c", "d", "e", "f", "g", "h", "i", "j", "k", "l", "m",
            "n", "o", "p", "q", "r", "s", "t", "u", "v", "w", "x", "y", "z">>

\* the lower-case letter of each upper-case letter
UpperToLower ==
    [c \in {Uppers[i] : i \in DOMAIN Uppers} |->
        Lowers[CHOOSE i \in DOMAIN Uppers : Uppers[i] = c]]

LowerChar(c) == IF c \in DOMAIN UpperToLower THEN UpperToLower[c] ELSE c

ToLower(s) == [i \in DOMAIN s |-> LowerChar(s[i])]

\* the names the model registers and looks up
foo == <<"f", "o", "o">>
Foo == <<"F", "o", "o">>
FOO == <<"F", "O", "O">>
bar == <<"b", "a", "r">>
dns == <<"d", "n", "s">>
DNS == <<"D", "N", "S">>
passthrough == <<"p", "a", "s", "s", "t", "h", "r", "o", "u", "g", "h">>

BalancerNames == {foo, Foo, FOO, bar}
Schemes == {dns, DNS}

-----------------------------------------------------------------------------
(* The registries                                                          *)

Nil == [nil |-> TRUE]

\* a balancer.Builder: its Name() and whether it implements ConfigParser
BalancerBuilders == [name : BalancerNames, parser : BOOLEAN]

\* the builders SpecReg registers: two builders named foo, and one each
\* of Foo, FOO and bar
RegistryBuilders == {b \in BalancerBuilders : b.parser \/ b.name = foo}

\* a resolver.Builder: its Scheme(); id tells two builders of a scheme apart
ResolverBuilders == [scheme : Schemes, id : 1..2]

\* m[k] = b
MapPut(m, k, b) == [x \in DOMAIN m \cup {k} |-> IF x = k THEN b ELSE m[x]]

\* delete(m, k)
MapDelete(m, k) == [x \in DOMAIN m \ {k} |-> m[x]]

\* balancer.Register: m[strings.ToLower(b.Name())] = b
BalancerRegisterKeepFirst(m, b) ==
    IF ToLower(b.name) \in DOMAIN m THEN m ELSE MapPut(m, ToLower(b.name), b)

BalancerRegisterExact(m, b) == MapPut(m, b.name, b)

BalancerRegister(m, b) == MapPut(m, ToLower(b.name), b)

\* balancer.unregisterForTesting: delete(m, name)
BalancerUnregister(m, name) == MapDelete(m, name)

\* balancer.Get
BalancerGet(m, name) ==
    IF ToLower(name) \in DOMAIN m THEN m[ToLower(name)] ELSE Nil

\* resolver.Register: m[b.Scheme()] = b
ResolverRegisterFolded(m, b) == MapPut(m, ToLower(b.scheme), b)

ResolverRegister(m, b) == MapPut(m, b.scheme, b)

\* resolver.Get
ResolverGet(m, scheme) ==
    IF scheme \in DOMAIN m THEN m[scheme] ELSE Nil

EmptyMap == [x \in {} |-> Nil]

NoRegOp == [op |-> "none"]

DoBalancerRegister(b) ==
    /\ balM' = BalancerRegister(balM, b)
    /\ balLatest' = [n \in BalancerNames |->
                        IF ToLower(n) = ToLower(b.name) THEN b ELSE balLatest[n]]
    /\ regLast' = [op |-> "Register", pkg |-> "balancer", builder |-> b,
                   replaced |-> BalancerGet(balM, b.name)]
    /\ UNCHANGED <<resM, defaultScheme, resLatest, onlyRegisters>>
    /\ UNCHANGED <<cseVars, bcVars>>

DoBalancerUnregister(name) ==
    /\ balM' = BalancerUnregister(balM, name)
    /\ onlyRegisters' = FALSE
    /\ regLast' = [op |-> "unregisterForTesting", pkg |-> "balancer", name |-> name]
    /\ UNCHANGED <<resM, defaultScheme, balLatest, resLatest>>
    /\ UNCHANGED <<cseVars, bcVars>>

DoBalancerGet(name) ==
    /\ regLast' = [op |-> "Get", pkg |-> "balancer", name |-> name,
                   ret |-> BalancerGet(balM, name)]
    /\ UNCHANGED <<balM, resM, defaultScheme, balLatest, resLatest, onlyRegisters>>
    /\ UNCHANGED <<cseVars, bcVars>>

DoResolverRegister(b) ==
    /\ resM' = ResolverRegister(resM, b)
    /\ resLatest' = [s \in Schemes |-> IF s = b.scheme THEN b ELSE resLatest[s]]
    /\ regLast' = [op |-> "Register", pkg |-> "resolver", builder |-> b,
                   replaced |-> ResolverGet(resM, b.scheme)]
    /\ UNCHANGED <<balM, defaultScheme, balLatest, onlyRegisters>>
    /\ UNCHANGED <<cseVars, bcVars>>

DoResolverGet(scheme) ==
    /\ regLast' = [op |-> "Get", pkg |-> "resolver", name |-> scheme,
                   ret |-> ResolverGet(resM, scheme)]
    /\ UNCHANGED <<balM, resM, defaultScheme, balLatest, resLatest, onlyRegisters>>
    /\ UNCHANGED <<cseVars, bcVars>>

\* resolver.SetDefaultScheme
SetDefaultSchemeLowered(scheme) ==
    /\ defaultScheme' = ToLower(scheme)
    /\ regLast' = [op |-> "SetDefaultScheme", pkg |-> "resolver", name |-> scheme]
    /\ UNCHANGED <<balM, resM, balLatest, resLatest, onlyRegisters>>
    /\ UNCHANGED <<cseVars, bcVars>>

SetDefaultScheme(scheme) ==
    /\ defaultScheme' = scheme
    /\ regLast' = [op |-> "SetDefaultScheme", pkg |-> "resolver", name |-> scheme]
    /\ UNCHANGED <<balM, resM, balLatest, resLatest, onlyRegisters>>
    /\ UNCHANGED <<cseVars, bcVars>>

\* resolver.GetDefaultScheme
GetDefaultScheme ==
    /\ regLast' = [op |-> "GetDefaultScheme", pkg |-> "resolver", ret |-> defaultScheme]
    /\ UNCHANGED <<balM, resM, defaultScheme, balLatest, resLatest, onlyRegisters>>
    /\ UNCHANGED <<cseVars, bcVars>>


-----------------------------------------------------------------------------
(* BalancerConfig.UnmarshalJSON                                            *)

baz == <<"b", "a", "z">>

\* raw policy configurations (json.RawMessage)
RawEmpty == "{}"
RawX == "{\"x\":1}"
RawBad == "{\"x\":\"bad\"}"
RawConfigs == {RawEmpty, RawX, RawBad}

NoErr == "nil"
ErrJSON == "json: cannot unmarshal"
ErrEntry == "invalid loadBalancingConfig: entry does not contain exactly 1 policy/config pair"
ErrParse == "error parsing loadBalancingConfig for policy"
ErrNoPolicy == "invalid loadBalancingConfig: no supported policies found"

NilConfig == [nil |-> TRUE]

\* the zero value of BalancerConfig
ZeroBalancerConfig == [Name |-> <<>>, Config |-> NilConfig]

\* ConfigParser.ParseConfig of a policy: rejects RawBad, and otherwise
\* returns a configuration that records the policy and what it parsed
ParseConfig(builder, jsonCfg) ==
    IF jsonCfg = RawBad
    THEN [cfg |-> NilConfig, err |-> "invalid config"]
    ELSE [cfg |-> [policy |-> builder.name, parsed |-> jsonCfg], err |-> NoErr]

\* the names of the preference lists, and the builders of SpecBC
EntryNames == {baz, foo, bar}
SelectorBuilders == {b \in BalancerBuilders : b.name = Foo \/ (b.name = bar /\ b.parser)}

Entry(n, r) == [x \in {n} |-> r]

\* map[string]json.RawMessage values: one key, no key, two keys
SingleKeyEntries == {Entry(n, r) : n \in EntryNames, r \in RawConfigs}
NoKeyEntry == [x \in {} |-> RawEmpty]
TwoKeyEntry == [x \in {foo, bar} |-> RawEmpty]
Entries == SingleKeyEntries \cup {NoKeyEntry, TwoKeyEntry}

\* intermediateBalancerConfig values
Lists == UNION {[1..n -> Entries] : n \in 0..MaxListLen}

\* the key:value pair of a map of one entry
KeyOf(lbcfg) == CHOOSE n \in DOMAIN lbcfg : TRUE

RECURSIVE Select(_, _, _, _)

\* len(lbcfg) != 1: return fmt.Errorf(...)
OnMalformedSkip(m, b0, ir, i) == Select(m, b0, ir, i + 1)

OnMalformed(m, b0, ir, i) == [bc |-> b0, err |-> ErrEntry, warned |-> FALSE]

\* builder == nil: continue
OnUnregisteredFail(m, b0, ir, i) == [bc |-> b0, err |-> ErrNoPolicy, warned |-> FALSE]

OnUnregistered(m, b0, ir, i) == Select(m, b0, ir, i + 1)

\* bc.Name = name
SetNameResetConfig(b0, name, builder) == [Name |-> name, Config |-> NilConfig]

SetName(b0, name, builder) == [b0 EXCEPT !.Name = name]

\* !ok: warn on a non-empty config, return nil
OnNoParserClearConfig(b1, jsonCfg) ==
    [bc |-> [b1 EXCEPT !.Config = NilConfig], err |-> NoErr, warned |-> jsonCfg # RawEmpty]

OnNoParser(b1, jsonCfg) == [bc |-> b1, err |-> NoErr, warned |-> jsonCfg # RawEmpty]

\* err != nil from ParseConfig: return fmt.Errorf(...)
OnParseErrorContinue(m, b1, ir, i) == Select(m, b1, ir, i + 1)

OnParseError(m, b1, ir, i) == [bc |-> b1, err |-> ErrParse, warned |-> FALSE]

\* bc.Config = cfg; return nil
OnParsed(b1, cfg) == [bc |-> [b1 EXCEPT !.Config = cfg], err |-> NoErr, warned |-> FALSE]

\* after the loop: return fmt.Errorf("... no supported policies found")
OnNoneFoundSucceed(b0) == [bc |-> b0, err |-> NoErr, warned |-> FALSE]

OnNoneFound(b0) == [bc |-> b0, err |-> ErrNoPolicy, warned |-> FALSE]

\* the loop over ir, from entry i on, with receiver b0
Select(m, b0, ir, i) ==
    IF i > Len(ir) THEN OnNoneFound(b0)
    ELSE LET lbcfg == ir[i] IN
        IF Cardinality(DOMAIN lbcfg) # 1 THEN OnMalformed(m, b0, ir, i)
        ELSE LET name == KeyOf(lbcfg)
                 jsonCfg == lbcfg[name]
                 builder == BalancerGet(m, name)
             IN IF builder = Nil THEN OnUnregistered(m, b0, ir, i)
                ELSE LET b1 == SetName(b0, name, builder) IN
                    IF ~builder.parser THEN OnNoParser(b1, jsonCfg)
                    ELSE LET r == ParseConfig(builder, jsonCfg) IN
                        IF r.err # NoErr THEN OnParseError(m, b1, ir, i)
                        ELSE OnParsed(b1, r.cfg)

\* an input of UnmarshalJSON: bytes json.Unmarshal rejects, or a list
Inputs == {[jsonErr |-> TRUE, ir |-> <<>>]} \cup
          {[jsonErr |-> FALSE, ir |-> l] : l \in Lists}

\* a variant that checks every entry before it selects
UnmarshalJSONValidateAll(m, b0, input) ==
    IF input.jsonErr THEN [bc |-> b0, err |-> ErrJSON, warned |-> FALSE]
    ELSE IF \E i \in 1..Len(input.ir) : Cardinality(DOMAIN input.ir[i]) # 1
    THEN [bc |-> b0, err |-> ErrEntry, warned |-> FALSE]
    ELSE Select(m, b0, input.ir, 1)

UnmarshalJSON(m, b0, input) ==
    IF input.jsonErr THEN [bc |-> b0, err |-> ErrJSON, warned |-> FALSE]
    ELSE Select(m, b0, input.ir, 1)

NoUnmarshal == [called |-> FALSE]

\* what a receiver may hold before the call: the zero value, or what an
\* earlier call of UnmarshalJSON on the struct left in it
Receivers ==
    {ZeroBalancerConfig} \cup
    {UnmarshalJSON(BalancerRegister(EmptyMap, b), ZeroBalancerConfig,
                   [jsonErr |-> FALSE, ir |-> <<Entry(n, r)>>]).bc :
        b \in SelectorBuilders, n \in EntryNames, r \in {RawX}}

\* the caller takes the BalancerConfig it will unmarshal into
NewReceiver(b0) ==
    /\ bc' = b0
    /\ lastUnmarshal' = NoUnmarshal
    /\ UNCHANGED <<cseVars, regVars>>

\* registration happens at initialization time, before a list is decoded
InitRegister(b) ==
    /\ ~lastUnmarshal.called
    /\ DoBalancerRegister(b)

\* one call of bc.UnmarshalJSON on the receiver taken
DoUnmarshalJSON(input) ==
    LET r == UnmarshalJSON(balM, bc, input) IN
    /\ ~lastUnmarshal.called
    /\ bc' = r.bc
    /\ lastUnmarshal' = [called |-> TRUE, input |-> input, prior |-> bc,
                         err |-> r.err, warned |-> r.warned]
    /\ UNCHANGED <<cseVars, regVars>>

-----------------------------------------------------------------------------
(* Specifications                                                          *)

Init ==
    /\ subConns = [i \in SubConnIds |-> NoSubConn]
    /\ cse = [numReady |-> U64(0), numConnecting |-> U64(0)]
    /\ lastRT = NoCall
    /\ balM = EmptyMap
    /\ resM = EmptyMap
    /\ defaultScheme = passthrough
    /\ regLast = NoRegOp
    /\ balLatest = [n \in BalancerNames |-> Nil]
    /\ resLatest = [s \in Schemes |-> Nil]
    /\ onlyRegisters = TRUE
    /\ bc = ZeroBalancerConfig
    /\ lastUnmarshal = NoUnmarshal

NextCSE ==
    \/ \E i \in SubConnIds : NewSubConn(i)
    \/ \E i \in SubConnIds : RecordInitial(i)
    \/ \E i \in SubConnIds, s \in ConnectivityStates : UpdateSubConnState(i, s)

SpecCSE == Init /\ [][NextCSE]_vars

NextReg ==
    \/ \E b \in RegistryBuilders : DoBalancerRegister(b)
    \/ \E n \in BalancerNames : DoBalancerUnregister(n)
    \/ \E n \in BalancerNames : DoBalancerGet(n)
    \/ \E b \in ResolverBuilders : DoResolverRegister(b)
    \/ \E s \in Schemes : DoResolverGet(s)
    \/ \E s \in Schemes : SetDefaultScheme(s)
    \/ GetDefaultScheme

SpecReg == Init /\ [][NextReg]_vars

NextBC ==
    \/ \E b \in SelectorBuilders : InitRegister(b)
    \/ \E b0 \in Receivers : NewReceiver(b0)
    \/ \E input \in Inputs : DoUnmarshalJSON(input)

SpecBC == Init /\ [][NextBC]_vars


-----------------------------------------------------------------------------
(* Properties of the ConnectivityStateEvaluator (SpecCSE)                  *)

SomeSubConnIn(state) == \E i \in SubConnIds : subConns[i] = state

\* C1: every value RecordTransition returns in a valid history is Ready iff
\* some SubConn is Ready after the call, else Connecting iff some SubConn is
\* Connecting, else TransientFailure.
C1_AggregateFollowsSubConns ==
    lastRT # NoCall =>
        lastRT.ret = IF SomeSubConnIn(Ready) THEN Ready
                     ELSE IF SomeSubConnIn(Connecting) THEN Connecting
                     ELSE TransientFailure

\* two SubConns went Connecting, one became Ready and then failed: the call
\* for (Ready -> TransientFailure) returned Connecting
C1_Witness ==
    /\ lastRT = [oldState |-> Ready, newState |-> TransientFailure, ret |-> Connecting]
    /\ SomeSubConnIn(Connecting)
    /\ SomeSubConnIn(TransientFailure)

\* C10: RecordTransition never returns Idle or Shutdown, and when every
\* tracked SubConn is Idle or Shutdown it returns TransientFailure.
C10_IdleShutdownNotCounted ==
    lastRT # NoCall =>
        /\ lastRT.ret \notin {Idle, Shutdown}
        /\ (\A i \in SubConnIds : subConns[i] \in {NoSubConn, Idle, Shutdown})
              => lastRT.ret = TransientFailure

\* an (Idle -> Idle) report while the other SubConn is shut down
C10_Witness ==
    /\ lastRT = [oldState |-> Idle, newState |-> Idle, ret |-> TransientFailure]
    /\ SomeSubConnIn(Shutdown)
    /\ SomeSubConnIn(Idle)
    /\ ~SomeSubConnIn(Ready)
    /\ ~SomeSubConnIn(Connecting)
    /\ ~SomeSubConnIn(TransientFailure)

\* the number of SubConns in a state
Count(state) == Cardinality({i \in SubConnIds : subConns[i] = state})

\* 2^64 - 1
MaxUint64 == [i \in 1..NumLimbs |-> LimbBase - 1]

\* C15: in every state of a valid history numReady is the number of
\* SubConns that are Ready and numConnecting the number that are
\* Connecting; the decrement adds 2^64 - 1 and is never due on a counter
\* that is 0, so no counter wraps; and a transition between equal states, or
\* between states outside {Ready, Connecting}, leaves both counters as
\* they are.
C15_CountersTrackSubConns ==
    /\ cse.numReady = U64(Count(Ready))
    /\ cse.numConnecting = U64(Count(Connecting))
    /\ UpdateVal(0) = MaxUint64
    /\ \A i \in SubConnIds :
          /\ subConns[i] = Ready => ~IsZero64(cse.numReady)
          /\ subConns[i] = Connecting => ~IsZero64(cse.numConnecting)
    /\ \A old \in ConnectivityStates, new \in ConnectivityStates :
          (old = new \/ {old, new} \cap {Ready, Connecting} = {})
              => UpdateCounters(cse, old, new) = cse

\* two SubConns Ready and one Connecting, after a (Connecting -> Ready)
\* move decremented numConnecting
C15_Witness ==
    /\ Count(Ready) = 2
    /\ Count(Connecting) = 1
    /\ lastRT.oldState = Connecting
    /\ lastRT.newState = Ready
    /\ cse = [numReady |-> U64(2), numConnecting |-> U64(1)]


-----------------------------------------------------------------------------
(* Properties of the registries (SpecReg)                                  *)

\* two characters that are the same letter, whatever their case
CasePairs == {{Uppers[i], Lowers[i]} : i \in DOMAIN Uppers}

SameLetter(c, d) == c = d \/ {c, d} \in CasePairs

\* two strings equal up to letter case
EqualFold(s, t) ==
    /\ Len(s) = Len(t)
    /\ \A i \in 1..Len(s) : SameLetter(s[i], t[i])

RegisteredBalancers == {balM[k] : k \in DOMAIN balM}
RegisteredResolvers == {resM[k] : k \in DOMAIN resM}

LastWas(op, pkg) == regLast.op = op /\ regLast.pkg = pkg

\* C7: after balancer.Register(b), Get(n) returns b for every n equal to
\* b.Name() up to letter case; Get returns nil for a name that no registered
\* builder matches case-insensitively, and a builder it returns matches.
C7_BalancerLookupIgnoresCase ==
    /\ LastWas("Register", "balancer") =>
          \A n \in BalancerNames :
              EqualFold(n, regLast.builder.name) => BalancerGet(balM, n) = regLast.builder
    /\ \A n \in BalancerNames :
          (~\E b \in RegisteredBalancers : EqualFold(b.name, n)) => BalancerGet(balM, n) = Nil
    /\ LastWas("Get", "balancer") =>
          IF \E b \in RegisteredBalancers : EqualFold(b.name, regLast.name)
          THEN regLast.ret \in RegisteredBalancers /\ EqualFold(regLast.ret.name, regLast.name)
          ELSE regLast.ret = Nil

\* Get("FOO") returned the builder registered as "Foo"
C7_Witness ==
    /\ LastWas("Get", "balancer")
    /\ regLast.name = FOO
    /\ regLast.ret # Nil
    /\ regLast.ret.name = Foo

\* C8: after resolver.Register(b), Get(s) returns b iff s equals b.Scheme()
\* character for character; a query that is no registered scheme returns nil.
C8_ResolverLookupExactCase ==
    /\ LastWas("Register", "resolver") =>
          \A s \in Schemes :
              (ResolverGet(resM, s) = regLast.builder) <=> (s = regLast.builder.scheme)
    /\ \A s \in Schemes :
          (~\E b \in RegisteredResolvers : b.scheme = s) => ResolverGet(resM, s) = Nil
    /\ LastWas("Get", "resolver") =>
          IF \E b \in RegisteredResolvers : b.scheme = regLast.name
          THEN regLast.ret \in RegisteredResolvers /\ regLast.ret.scheme = regLast.name
          ELSE regLast.ret = Nil

\* Get("DNS") returned nil although "dns" is registered
C8_Witness ==
    /\ LastWas("Get", "resolver")
    /\ regLast.name = DNS
    /\ regLast.ret = Nil
    /\ \E b \in RegisteredResolvers : b.scheme = dns

\* a Register step leaves Get unchanged for every name of another key
RegisterKeepsOtherKeys ==
    /\ \A b \in RegistryBuilders : DoBalancerRegister(b) =>
          \A n \in BalancerNames :
              ToLower(n) # ToLower(b.name) => BalancerGet(balM', n) = BalancerGet(balM, n)
    /\ \A b \in ResolverBuilders : DoResolverRegister(b) =>
          \A s \in Schemes :
              s # b.scheme => ResolverGet(resM', s) = ResolverGet(resM, s)

\* after Register calls alone, Get returns the latest builder of the key
LatestRegistrationWins ==
    /\ onlyRegisters => \A n \in BalancerNames : BalancerGet(balM, n) = balLatest[n]
    /\ \A s \in Schemes : ResolverGet(resM, s) = resLatest[s]

\* C9: in each registry, after any sequence of Register calls Get(k) returns
\* the builder of the most recent Register call whose key equals k (the
\* lowercased Name(), or the Scheme()), and a Register call leaves the
\* binding of every other key unchanged.
C9_LastWriterWins == []LatestRegistrationWins /\ [][RegisterKeepsOtherKeys]_vars

\* a balancer builder replaced one whose name differs only in case, with
\* "bar" bound as well, and a resolver builder replaced one of its scheme
C9_Witness ==
    /\ LastWas("Register", "balancer")
    /\ regLast.replaced # Nil
    /\ regLast.replaced.name # regLast.builder.name
    /\ BalancerGet(balM, regLast.replaced.name) = regLast.builder
    /\ BalancerGet(balM, bar) # Nil
    /\ onlyRegisters
    /\ \E s \in Schemes : resLatest[s] # Nil /\ resLatest[s].id = 2


\* a step sets the default scheme to s if it is SetDefaultScheme(s), and
\* leaves it alone if it is any other registry operation
DefaultSchemeStep ==
    IF regLast'.op = "SetDefaultScheme"
    THEN defaultScheme' = regLast'.name
    ELSE defaultScheme' = defaultScheme

\* GetDefaultScheme returns the default scheme
GetReturnsDefaultScheme ==
    LastWas("GetDefaultScheme", "resolver") => regLast.ret = defaultScheme

UnregisterUndoesRegister ==
    \A b \in RegistryBuilders :
        (/\ LastWas("Register", "balancer")
         /\ regLast.builder = b
         /\ DoBalancerUnregister(b.name)) =>
            /\ BalancerGet(balM', b.name) = Nil
            /\ \A n \in BalancerNames :
                  ~EqualFold(n, b.name) => BalancerGet(balM', n) = BalancerGet(balM, n)

\* C14: for every builder b, after balancer.Register(b) followed by
\* unregisterForTesting(b.Name()), balancer.Get(b.Name()) returns nil,
\* whatever the letter case of b.Name(), and the bindings of all other
\* names are unchanged.
C14_UnregisterUndoesRegister == [][UnregisterUndoesRegister]_vars


-----------------------------------------------------------------------------
(* Properties of BalancerConfig.UnmarshalJSON (SpecBC)                     *)

\* the last call decoded its bytes into a preference list
Decoded == lastUnmarshal.called /\ ~lastUnmarshal.input.jsonErr

IR == lastUnmarshal.input.ir

Succeeded == lastUnmarshal.err = NoErr

SingleKey(lbcfg) == Cardinality(DOMAIN lbcfg) = 1

\* some registered builder has this name, up to letter case
IsRegistered(n) == \E b \in RegisteredBalancers : EqualFold(b.name, n)

BuilderOf(n) == CHOOSE b \in RegisteredBalancers : EqualFold(b.name, n)

\* entry i names one policy, and that policy is registered
Supported(ir, i) == SingleKey(ir[i]) /\ IsRegistered(KeyOf(ir[i]))

\* the index of the first entry whose name is registered, 0 if there is none
FirstSupported(ir) ==
    IF \E i \in 1..Len(ir) : Supported(ir, i)
    THEN CHOOSE i \in 1..Len(ir) :
            Supported(ir, i) /\ \A j \in 1..(i - 1) : ~Supported(ir, j)
    ELSE 0

AllSingleKey(ir) == \A i \in 1..Len(ir) : SingleKey(ir[i])

FirstName == KeyOf(IR[FirstSupported(IR)])
FirstRaw == IR[FirstSupported(IR)][FirstName]
FirstBuilder == BuilderOf(FirstName)

\* C2 as stated: a list of single-key entries with a registered name always
\* succeeds, with the first registered entry's name and its parsed config.
C2_AsStated ==
    (Decoded /\ AllSingleKey(IR) /\ FirstSupported(IR) # 0) =>
        /\ Succeeded
        /\ bc.Name = FirstName
        /\ FirstBuilder.parser => bc.Config = ParseConfig(FirstBuilder, FirstRaw).cfg

\* C2: given a list of single-key entries in which some name is registered,
\* if the builder of the first registered entry implements ConfigParser and
\* its ParseConfig accepts that entry's raw config, the call succeeds with
\* Name the name of that entry and Config the result of ParseConfig;
\* unregistered entries before it are skipped without error.
C2_FirstRegisteredSelected ==
    (/\ Decoded /\ AllSingleKey(IR) /\ FirstSupported(IR) # 0
     /\ FirstBuilder.parser
     /\ ParseConfig(FirstBuilder, FirstRaw).err = NoErr) =>
        /\ Succeeded
        /\ bc.Name = FirstName
        /\ bc.Config = ParseConfig(FirstBuilder, FirstRaw).cfg

\* [{"baz":{}}, {"bar":{"x":1}}] with bar registered and baz not
C2_Witness ==
    /\ Decoded
    /\ IR = <<Entry(baz, RawEmpty), Entry(bar, RawX)>>
    /\ ~IsRegistered(baz)
    /\ Succeeded
    /\ bc = [Name |-> bar, Config |-> [policy |-> bar, parsed |-> RawX]]

\* C3: if ParseConfig of the first registered policy returns an error, the
\* call returns an error, whatever entries follow.
C3_ParseErrorFailsList ==
    (/\ Decoded /\ FirstSupported(IR) # 0
     /\ FirstBuilder.parser
     /\ ParseConfig(FirstBuilder, FirstRaw).err # NoErr) =>
        ~Succeeded

\* the first registered policy rejects its config and a later registered
\* policy would have accepted its own
C3_Witness ==
    /\ Decoded
    /\ IR = <<Entry(foo, RawBad), Entry(bar, RawEmpty)>>
    /\ IsRegistered(foo) /\ BuilderOf(foo).parser
    /\ IsRegistered(bar) /\ BuilderOf(bar).parser
    /\ lastUnmarshal.err = ErrParse

\* C4 as stated: an entry with no key or several keys anywhere in the list
\* makes the call fail.
C4_AsStated ==
    (Decoded /\ ~AllSingleKey(IR)) => ~Succeeded

\* C4: an entry with no key or several keys that no entry with a registered
\* name precedes makes the call fail with the entry error.
C4_MalformedBeforeSupportedFails ==
    (/\ Decoded
     /\ \E i \in 1..Len(IR) :
           ~SingleKey(IR[i]) /\ \A j \in 1..(i - 1) : ~Supported(IR, j)) =>
        lastUnmarshal.err = ErrEntry

\* a two-key entry ahead of a registered policy
C4_Witness ==
    /\ Decoded
    /\ IR = <<TwoKeyEntry, Entry(bar, RawEmpty)>>
    /\ IsRegistered(bar)
    /\ lastUnmarshal.err = ErrEntry

\* C5: if no entry of the list names a registered policy, the call returns
\* an error; a call that succeeds leaves a registered Name.
C5_NoSupportedPolicyFails ==
    /\ (Decoded /\ \A i \in 1..Len(IR) : \A n \in DOMAIN IR[i] : ~IsRegistered(n))
          => ~Succeeded
    /\ (lastUnmarshal.called /\ Succeeded) => IsRegistered(bc.Name)

\* a list of two unregistered names, with another policy registered
C5_Witness ==
    /\ Decoded
    /\ IR = <<Entry(baz, RawX), Entry(foo, RawEmpty)>>
    /\ ~IsRegistered(foo)
    /\ IsRegistered(bar)
    /\ lastUnmarshal.err = ErrNoPolicy

\* C6 as stated: with a first registered builder that is no ConfigParser the
\* call succeeds with a nil Config, whatever the receiver held.
C6_AsStated ==
    (/\ Decoded /\ FirstSupported(IR) # 0
     /\ \A j \in 1..FirstSupported(IR) : SingleKey(IR[j])
     /\ ~FirstBuilder.parser) =>
        /\ Succeeded
        /\ bc.Name = FirstName
        /\ bc.Config = NilConfig

\* C6: with a first registered builder that is no ConfigParser the call
\* succeeds with Name the name of that entry and the Config the receiver
\* held before the call, which is nil for a fresh receiver.
C6_NoParserKeepsConfig ==
    (/\ Decoded /\ FirstSupported(IR) # 0
     /\ \A j \in 1..FirstSupported(IR) : SingleKey(IR[j])
     /\ ~FirstBuilder.parser) =>
        /\ Succeeded
        /\ bc.Name = FirstName
        /\ bc.Config = lastUnmarshal.prior.Config
        /\ lastUnmarshal.prior = ZeroBalancerConfig => bc.Config = NilConfig

\* a receiver that held another policy's config selects a builder without
\* ParseConfig, given a non-empty raw config
C6_Witness ==
    /\ Decoded
    /\ IR = <<Entry(foo, RawX)>>
    /\ IsRegistered(foo) /\ ~BuilderOf(foo).parser
    /\ lastUnmarshal.prior.Config # NilConfig
    /\ lastUnmarshal.warned
    /\ Succeeded
    /\ bc.Name = foo


\* the list cut after its first entry whose name is registered
SupportedPrefix(ir) == SubSeq(ir, 1, FirstSupported(ir))

\* C12: the outcome of a call (error, Name, Config) is the outcome of the
\* call on the list cut after its first entry whose name is registered, so
\* lists that agree up to that entry give the same outcome and the entries
\* after it are never looked up, parsed or validated.
C12_StopsAtFirstSupported ==
    (Decoded /\ FirstSupported(IR) # 0) =>
        LET r == UnmarshalJSON(balM, lastUnmarshal.prior,
                               [jsonErr |-> FALSE, ir |-> SupportedPrefix(IR)])
        IN /\ lastUnmarshal.err = r.err
           /\ bc = r.bc

\* a two-key entry after the selected policy did not fail the call
C12_Witness ==
    /\ Decoded
    /\ IR = <<Entry(bar, RawX), TwoKeyEntry>>
    /\ IsRegistered(bar)
    /\ Succeeded
    /\ bc.Name = bar
    /\ bc.Config = [policy |-> bar, parsed |-> RawX]


\* C13 as stated: a call that returns an error leaves the receiver's Name
\* and Config as they were before the call.
C13_AsStated ==
    (lastUnmarshal.called /\ ~Succeeded) => bc = lastUnmarshal.prior

\* C13: a call that returns an error leaves the receiver's Config as it
\* was; it leaves the Name as it was too, except when the error is the
\* parser's: then Name is the name of the entry whose config was rejected.
C13_FailureKeepsConfig ==
    (lastUnmarshal.called /\ ~Succeeded) =>
        /\ bc.Config = lastUnmarshal.prior.Config
        /\ lastUnmarshal.err # ErrParse => bc.Name = lastUnmarshal.prior.Name
        /\ lastUnmarshal.err = ErrParse => bc.Name = FirstName

\* a receiver that held bar's config fails on foo's: the Name is now foo,
\* the Config still bar's
C13_Witness ==
    /\ Decoded
    /\ IR = <<Entry(baz, RawEmpty), Entry(foo, RawBad)>>
    /\ lastUnmarshal.err = ErrParse
    /\ lastUnmarshal.prior = [Name |-> bar, Config |-> [policy |-> bar, parsed |-> RawX]]
    /\ bc = [Name |-> foo, Config |-> [policy |-> bar, parsed |-> RawX]]


====
